---- MODULE Spec2Model ----
(***************************************************************************)
(* State-machine model of internet_monitor.py: the module-level counters   *)
(* and flags, and the body of the `while True` loop (one probe cycle).     *)
(* One cycle is one action; which action fires is decided by the exit      *)
(* status of the fping process.  The text matched by the two regular       *)
(* expressions and the result of check_dns() are the inputs of a cycle.    *)
(*                                                                         *)
(* An optional value (a regex match that may be None, a global that may    *)
(* not be bound yet) is a sequence of length 0 or 1.                       *)
(***************************************************************************)
EXTENDS Integers, Sequences, FiniteSets, TLC

\* ---------------------------------------------------------------- constants
\* TRIGGER = 3  # alert after number of misses
TRIGGER == 3
\* the literal of `if ping_time > 1000`
LatencyLimit == 1000
\* the literal of `ping_time = 99999` when the latency pattern does not match
ParseFallback == 99999
\* the literal of `if dns_fail_count >= 3`
DnsTrigger == 3
\* INTERVAL = 60  # seconds
INTERVAL == 60

\* STATUS_MAX_AGE: int = WEB.getint("status_max_age", 300)
DefaultMaxAge == 300
\* timedelta.seconds: the seconds within the day
SecondsPerDay == 86400

\* ------------------------------------------------------------------- bounds
\* number of loop iterations explored
MaxCycles == 7
\* average latencies (ms, group 2 of the latency pattern) the probe may print
LatencyValues == {20, 1000, 1500}
\* loss percentages (group 1 of the loss pattern) the probe may print
LossValues == {0, 20}
\* clock resolution: ticks per second (datetime carries sub-second precision)
TicksPerSecond == 2
\* how far past INTERVAL (in ticks) the next iteration may read the clock
MaxLate == 1
\* number of leading iterations during which the notifier or the log may fail
MaxDegraded == 4

\* An iteration reads the clock INTERVAL seconds or a little more after the
\* previous one did (the sleep loop at the end of the body).
Periods == {INTERVAL * TicksPerSecond + late : late \in 0..MaxLate}

\* how long (in ticks) a call of fping or of gethostbyname may take before it
\* returns: no time, a fraction of a second, about a second, and just under
\* and just over INTERVAL
CallTicks == {0, 1, TicksPerSecond + 1,
              INTERVAL * TicksPerSecond - 1, INTERVAL * TicksPerSecond + 1}

\* durations handed to format_time: up to MaxHours hours, with these minutes
\* and seconds
MaxHours == 25
MinuteValues == {0, 1, 2, 59}
SecondValues == {0, 1, 2, 59}
FormatInputs ==
    {h * 3600 + m * 60 + sec :
        h \in 0..MaxHours, m \in MinuteValues, sec \in SecondValues}

\* "timestamp" values a status file may hold: <<h, m, s>> stands for the text
\* "2025-12-07Thh:mm:ssZ", <<>> for an empty text or an absent key; noon, one
\* second before noon, and two texts strptime rejects
Timestamps == {<<>>, <<12, 0, 0>>, <<11, 59, 59>>, <<12, 0, 60>>, <<24, 0, 0>>}
\* "state" values a status file may hold
StoredStates == {"up", "down", "warning", "unknown", "UP", "bogus"}
\* the "internet" / "dns" member: absent or not an object, or its "state"
Members == {<<>>} \cup {<<st>> : st \in StoredStates}
\* [web] status_max_age values
MaxAges == {-1, 0, 1, DefaultMaxAge}
\* readings of the viewer's clock, in ticks: around noon, around one second
\* later and around DefaultMaxAge seconds later
Clocks == {(12 * 3600 + a) * TicksPerSecond + e :
               a \in {0, 1, DefaultMaxAge}, e \in {-1, 0, 1}}

\* os.path.exists(STATUS_PATH) is False
NoFile == [kind |-> "missing", timestamp |-> <<>>, internet |-> <<>>, dns |-> <<>>]
\* json.load raises, or yields something that is not a dict
NotJson == [kind |-> "invalid", timestamp |-> <<>>, internet |-> <<>>, dns |-> <<>>]
NotDict == [kind |-> "list", timestamp |-> <<>>, internet |-> <<>>, dns |-> <<>>]
\* a JSON object
StatusDicts ==
    [kind : {"dict"}, timestamp : Timestamps, internet : Members, dns : Members]
StatusFiles == {NoFile, NotJson, NotDict} \cup StatusDicts

\* what re.search returns for each pattern: no match, or the captured number
LatencyMatches == {<<>>} \cup {<<v>> : v \in LatencyValues}
LossMatches == {<<>>} \cup {<<v>> : v \in LossValues}

\* ---------------------------------------------------------------- variables
VARIABLES
    pc,                     \* "running", or "crashed" after an uncaught exception
    cycle,                  \* number of loop iterations started
    internet_up,
    loss_percentage_count,
    dns_up,
    dns_fail_count,
    ping_fail_count,
    high_latency_count,
    notified,
    ping_time,              \* <<>> while the name is unbound, else <<value>>
    emitted,                \* alerts/notifications issued by the last cycle, in order
    sample,                 \* the inputs of the last cycle
    run,                    \* per signal: consecutive bad samples seen so far
    fired,                  \* per signal: Triggered events since the run began
    dnsRun,                 \* consecutive cycles in which check_dns() returned False
    now,                    \* datetime.utcnow() as read by the last cycle, in ticks
    ping_fail_time,         \* in ticks
    downtime,               \* seconds carried by the last cycle's outage recovery, if any
    runStart,               \* clock reading of the first failed ping of the latest run
    period,                 \* ticks between the clock readings of two iterations
    io,                     \* whether the notifier and the log file worked in the last cycle
    ideal,                  \* program state the last cycle yields when both work
    \* the loop's position and clock (internet_monitor.py lines 93-96, 193-194)
    loc,                    \* "start", "fping", "dns" or "sleep"
    elapsed,                \* time.time() - start_time, in ticks
    work,                   \* elapsed when the sleep loop was entered, if it has been
    lastCycle,              \* of the previous iteration: ticks to the next start, and its work
    hung,                   \* the blocking call the loop is in will never return
    \* the viewer (log_viewer.py)
    status_file,            \* what is stored at STATUS_PATH
    STATUS_MAX_AGE,         \* [web] status_max_age of config.ini, in seconds
    clock,                  \* datetime.now(timezone.utc) of the viewer, in ticks
    shown,                  \* what load_status() returned last, if it has been called
    \* format_time
    seconds,                \* the argument
    time_parts,             \* the list built by the last call
    formatted_time          \* the text returned by the last call, if any

monitorVars == <<pc, cycle, internet_up, loss_percentage_count, dns_up, dns_fail_count,
                 ping_fail_count, high_latency_count, notified, ping_time, emitted,
                 sample, run, fired, dnsRun, now, ping_fail_time, downtime, runStart,
                 period, io, ideal>>

loopVars == <<loc, elapsed, work, lastCycle, hung>>

viewerVars == <<status_file, STATUS_MAX_AGE, clock, shown>>

formatVars == <<seconds, time_parts, formatted_time>>

vars == <<monitorVars, loopVars, viewerVars, formatVars>>

Signals == {"reach", "lat", "loss"}

\* the alert sites of the loop body
Triggered(sig) ==
    CASE sig = "reach" -> "ReachTriggered"
      [] sig = "lat"   -> "LatTriggered"
      [] sig = "loss"  -> "LossTriggered"

Recovered(sig) ==
    CASE sig = "reach" -> "ReachRecovered"
      [] sig = "lat"   -> "LatRecovered"
      [] sig = "loss"  -> "LossRecovered"

Count(seq, ev) == Cardinality({i \in DOMAIN seq : seq[i] = ev})

\* ------------------------------------------------------------ the loop body
\* The program state threaded through one iteration.
Cur ==
    [pc |-> pc,
     internet_up |-> internet_up,
     loss_percentage_count |-> loss_percentage_count,
     dns_up |-> dns_up,
     dns_fail_count |-> dns_fail_count,
     ping_fail_count |-> ping_fail_count,
     high_latency_count |-> high_latency_count,
     notified |-> notified,
     ping_time |-> ping_time,
     emitted |-> <<>>,
     now |-> now,
     ping_fail_time |-> ping_fail_time,
     downtime |-> <<>>,
     send_ok |-> TRUE,
     log_ok |-> TRUE]

\* the counters, flags and position of the program in a body state
Prog(s) ==
    [pc |-> s.pc,
     internet_up |-> s.internet_up,
     loss_percentage_count |-> s.loss_percentage_count,
     dns_up |-> s.dns_up,
     dns_fail_count |-> s.dns_fail_count,
     ping_fail_count |-> s.ping_fail_count,
     high_latency_count |-> s.high_latency_count,
     notified |-> s.notified,
     ping_time |-> s.ping_time,
     ping_fail_time |-> s.ping_fail_time]

\* an alert site of the loop body is reached
Emit(s, ev) == [s EXCEPT !.emitted = Append(@, ev)]

Alive(s) == s.pc = "running"

\* logf(): open(..., 'a') and write; an OSError is not handled anywhere
Logf(s) ==
    IF ~Alive(s) \/ s.log_ok THEN s ELSE [s EXCEPT !.pc = "crashed"]

\* send_pushover_notification(): the exception of a failed send is caught
\* and reported through logf()
SendPushover(s) ==
    IF ~Alive(s) \/ s.send_ok THEN s ELSE Logf(s)

\* send_pushover_notification(...) followed by logf(..., "Alert: ...")
Notify(s, ev) == Logf(SendPushover(Emit(s, ev)))

\* match = re.search(pattern, pingout); ping_time = float(match.group(2)) or 99999
ParsePingTime(s, latm) ==
    IF latm # <<>>
    THEN [s EXCEPT !.ping_time = latm]
    ELSE LET l == Logf(s)
         IN  IF Alive(l) THEN [l EXCEPT !.ping_time = <<ParseFallback>>] ELSE l

\* if loss_percentage_count == TRIGGER
LossRecoveryDue(n) == n = TRIGGER

\* if loss_percentage_count >= TRIGGER
LossTriggerDue(n) == n >= TRIGGER

\* plmatch branch: packet-loss counter, alert and recovery
PacketLoss(s, lossm) ==
    IF ~Alive(s)
    THEN s
    ELSE IF lossm = <<>>
    THEN Logf(s)
    ELSE LET loss_percentage == lossm[1]
             zero == IF loss_percentage = 0
                     THEN LET r == IF LossRecoveryDue(s.loss_percentage_count)
                                   THEN LET e == Notify(s, "LossRecovered")
                                        IN  IF Alive(e)
                                            THEN [e EXCEPT !.notified = FALSE]
                                            ELSE e
                                   ELSE s
                          IN  IF Alive(r)
                              THEN [r EXCEPT !.loss_percentage_count = 0]
                              ELSE r
                     ELSE s
         IN  IF loss_percentage > 0
             THEN LET l == Logf(zero)
                      inc == [l EXCEPT !.loss_percentage_count = @ + 1]
                  IN  IF ~Alive(l)
                      THEN l
                      ELSE IF LossTriggerDue(inc.loss_percentage_count)
                      THEN LET e == Notify(inc, "LossTriggered")
                           IN  IF Alive(e) THEN [e EXCEPT !.notified = TRUE] ELSE e
                      ELSE inc
             ELSE zero

\* the recovery test with the comparison off by one
ReachRecoveryDue_strict(n) == n > TRIGGER

\* if ping_fail_count >= TRIGGER   (recovery side)
ReachRecoveryDue(n) == n >= TRIGGER

\* int((datetime.utcnow() - ping_fail_time).total_seconds())
Downtime(t, since) == (t - since) \div TicksPerSecond

\* tail of the try block: recovery notification, counter reset, internet_up
ReachabilityUp(s) ==
    IF ~Alive(s)
    THEN s
    ELSE LET r == IF ReachRecoveryDue(s.ping_fail_count)
                  THEN LET d == [s EXCEPT
                                    !.downtime = <<Downtime(s.now, s.ping_fail_time)>>]
                           e == Notify(d, "ReachRecovered")
                       IN  IF Alive(e) THEN [e EXCEPT !.notified = FALSE] ELSE e
                  ELSE s
         IN  IF Alive(r)
             THEN [r EXCEPT !.ping_fail_time = s.now, !.ping_fail_count = 0,
                            !.internet_up = TRUE]
             ELSE r

\* if ping_fail_count >= TRIGGER and not notified
ReachTriggerDue(n, flag) == n >= TRIGGER /\ ~flag

\* the timestamp taken on every failed ping instead of the first
FirstFailure_every(n) == n >= 1

\* if ping_fail_count == 1
FirstFailure(n) == n = 1

\* except subprocess.CalledProcessError
ReachabilityDown(s) ==
    LET cnt == [s EXCEPT !.ping_fail_count = @ + 1, !.internet_up = FALSE]
        inc == IF FirstFailure(cnt.ping_fail_count)
               THEN [cnt EXCEPT !.ping_fail_time = s.now]
               ELSE cnt
    IN  IF ReachTriggerDue(inc.ping_fail_count, inc.notified)
        THEN LET e == Logf(Emit(inc, "ReachTriggered"))
             IN  IF Alive(e) THEN [e EXCEPT !.notified = TRUE] ELSE e
        ELSE inc

\* if ping_time > 1000
HighLatency(t) == t > LatencyLimit

\* if high_latency_count >= TRIGGER and not notified
LatTriggerDue(n, flag) == n >= TRIGGER /\ ~flag

\* if high_latency_count >= TRIGGER   (recovery side)
LatRecoveryDue(n) == n >= TRIGGER

\* logf(..., "Alert: DNS ...") followed by send_pushover_notification(...)
DnsNotify(s, ev) == SendPushover(Logf(Emit(s, ev)))

\* if (not dns_state and dns_up) ... if (dns_state and not dns_up) ... dns_up = dns_state
DnsCheck(s, dns_state) ==
    LET f == IF ~dns_state /\ s.dns_up
             THEN LET inc == [s EXCEPT !.dns_fail_count = @ + 1]
                  IN  IF inc.dns_fail_count >= DnsTrigger
                      THEN DnsNotify(inc, "DnsTriggered")
                      ELSE inc
             ELSE s
        g == IF Alive(f) /\ dns_state /\ ~f.dns_up
             THEN LET r == IF f.dns_fail_count >= DnsTrigger
                           THEN DnsNotify(f, "DnsRecovered")
                           ELSE f
                  IN  IF Alive(r) THEN [r EXCEPT !.dns_fail_count = 0] ELSE r
             ELSE f
    IN  IF Alive(g) THEN [g EXCEPT !.dns_up = dns_state] ELSE g

\* The statements after the try/except: latency evaluation, then the DNS
\* check nested in its else branch.
\*  - reading ping_time while it is unbound raises NameError;
\*  - the recovery branch calls tz() with a str, whose replace() rejects the
\*    keyword argument: TypeError before anything is sent or reset.
LatencyAndDns(s, dns_state) ==
    IF ~Alive(s)
    THEN s
    ELSE IF s.ping_time = <<>>
    THEN [s EXCEPT !.pc = "crashed"]
    ELSE IF HighLatency(s.ping_time[1])
         THEN LET inc == [s EXCEPT !.high_latency_count = @ + 1]
              IN  IF LatTriggerDue(inc.high_latency_count, inc.notified)
                  THEN LET e == Notify(inc, "LatTriggered")
                       IN  IF Alive(e) THEN [e EXCEPT !.notified = TRUE] ELSE e
                  ELSE inc
         ELSE IF LatRecoveryDue(s.high_latency_count)
              THEN [s EXCEPT !.pc = "crashed"]
              ELSE LET z == [s EXCEPT !.high_latency_count = 0]
                   IN  IF z.internet_up THEN DnsCheck(z, dns_state) ELSE z

\* check_dns() is reached: no exception, latency branch is the else, internet_up
DnsConsulted(s) ==
    /\ s.pc = "running"
    /\ ~HighLatency(s.ping_time[1])
    /\ s.internet_up

\* ------------------------------------------------- observation of a cycle
\* How one cycle's inputs count for each signal.
Classify(sig, smp) ==
    CASE sig = "reach" -> IF smp.exit = "fail" THEN "bad"
                          ELSE IF smp.exit = "ok" THEN "good" ELSE "none"
      [] sig = "lat"   -> IF smp.exit = "ok" /\ smp.lat # <<>>
                          THEN IF smp.lat[1] > LatencyLimit THEN "bad" ELSE "good"
                          ELSE "none"
      [] sig = "loss"  -> IF smp.exit = "ok" /\ smp.loss # <<>>
                          THEN IF smp.loss[1] > 0 THEN "bad" ELSE "good"
                          ELSE "none"

NextRun(sig, smp) ==
    CASE Classify(sig, smp) = "bad"  -> run[sig] + 1
      [] Classify(sig, smp) = "good" -> 0
      [] OTHER -> run[sig]

NextFired(sig, smp, out) ==
    LET new == Count(out, Triggered(sig))
    IN  CASE Classify(sig, smp) = "good" -> new
          [] Classify(sig, smp) = "bad" /\ run[sig] = 0 -> new
          [] OTHER -> fired[sig] + new

\* Store the state reached by the loop body and the observation of the cycle.
Commit(s, smp) ==
    /\ pc' = s.pc
    /\ cycle' = cycle + 1
    /\ internet_up' = s.internet_up
    /\ loss_percentage_count' = s.loss_percentage_count
    /\ dns_up' = s.dns_up
    /\ dns_fail_count' = s.dns_fail_count
    /\ ping_fail_count' = s.ping_fail_count
    /\ high_latency_count' = s.high_latency_count
    /\ notified' = s.notified
    /\ ping_time' = s.ping_time
    /\ emitted' = s.emitted
    /\ sample' = smp
    /\ run' = [sig \in Signals |-> NextRun(sig, smp)]
    /\ fired' = [sig \in Signals |-> NextFired(sig, smp, s.emitted)]
    /\ dnsRun' = IF smp.dns = <<FALSE>> THEN dnsRun + 1 ELSE 0
    /\ now' = s.now
    /\ ping_fail_time' = s.ping_fail_time
    /\ downtime' = s.downtime
    /\ runStart' = IF smp.exit = "fail" /\ run["reach"] = 0 THEN <<s.now>> ELSE runStart
    /\ period' = period
    /\ io' = [send_ok |-> s.send_ok, log_ok |-> s.log_ok]
    /\ UNCHANGED <<loopVars, viewerVars, formatVars>>

\* ------------------------------------------------------------------ actions
\* the module-level assignments (lines 19-82)
InitMonitor ==
    /\ pc = "running"
    /\ cycle = 0
    /\ internet_up = FALSE
    /\ loss_percentage_count = 0
    /\ dns_up = TRUE
    /\ dns_fail_count = 0
    /\ ping_fail_count = 0
    /\ high_latency_count = 0
    /\ notified = FALSE
    /\ ping_time = <<>>
    /\ emitted = <<>>
    /\ sample = [exit |-> "none", lat |-> <<>>, loss |-> <<>>, dns |-> <<>>]
    /\ run = [sig \in Signals |-> 0]
    /\ fired = [sig \in Signals |-> 0]
    /\ dnsRun = 0
    /\ now = 0
    /\ ping_fail_time = 0
    /\ downtime = <<>>
    /\ runStart = <<>>
    /\ period \in Periods
    /\ io = [send_ok |-> TRUE, log_ok |-> TRUE]
    /\ ideal = Prog(Cur)

\* the loop has not been entered
LoopIdle ==
    /\ loc = "start"
    /\ elapsed = 0
    /\ work = <<>>
    /\ lastCycle = <<>>
    /\ hung = FALSE

\* nothing is stored at STATUS_PATH; log_viewer.py runs with its defaults
ViewerIdle ==
    /\ status_file = NoFile
    /\ STATUS_MAX_AGE = DefaultMaxAge
    /\ clock = 0
    /\ shown = <<>>

\* format_time has not been called
FormatIdle ==
    /\ seconds = 0
    /\ time_parts = <<>>
    /\ formatted_time = <<>>

Init == InitMonitor /\ LoopIdle /\ ViewerIdle /\ FormatIdle

\* The try block when fping exits 0, then the latency/DNS statements.
BodySucceeds(s, latm, lossm, dns_state) ==
    LatencyAndDns(ReachabilityUp(PacketLoss(ParsePingTime(s, latm), lossm)), dns_state)

\* The except block when fping exits non-zero (check=True raises
\* CalledProcessError), then the latency/DNS statements with whatever
\* ping_time an earlier iteration left.
BodyFails(s) == LatencyAndDns(ReachabilityDown(s), TRUE)

\* State at the top of an iteration: the clock has advanced; the notifier and
\* the log file work or not during this iteration.
Start(snd, lg) ==
    [Cur EXCEPT !.now = @ + period, !.send_ok = snd, !.log_ok = lg]

SucceedsWith(snd, lg) ==
    /\ pc = "running"
    /\ cycle < MaxCycles
    /\ \E latm \in LatencyMatches, lossm \in LossMatches, dns_state \in BOOLEAN :
          LET s4 == BodySucceeds(Start(snd, lg), latm, lossm, dns_state)
              smp == [exit |-> "ok", lat |-> latm, loss |-> lossm,
                      dns |-> IF DnsConsulted(s4) THEN <<dns_state>> ELSE <<>>]
          IN  /\ Commit(s4, smp)
              /\ ideal' = Prog(BodySucceeds(Start(TRUE, TRUE), latm, lossm, dns_state))

FailsWith(snd, lg) ==
    /\ pc = "running"
    /\ cycle < MaxCycles
    /\ LET s2 == BodyFails(Start(snd, lg))
           smp == [exit |-> "fail", lat |-> <<>>, loss |-> <<>>, dns |-> <<>>]
       IN  /\ Commit(s2, smp)
           /\ ideal' = Prog(BodyFails(Start(TRUE, TRUE)))

\* One iteration in which fping exits 0.
ProbeSucceeds == SucceedsWith(TRUE, TRUE)

\* One iteration in which fping exits non-zero.
ProbeFails == FailsWith(TRUE, TRUE)

\* The same iterations while the push service, the log file or both fail.
ProbeSucceedsDegraded ==
    /\ cycle < MaxDegraded
    /\ \E snd \in BOOLEAN, lg \in BOOLEAN : ~(snd /\ lg) /\ SucceedsWith(snd, lg)

ProbeFailsDegraded ==
    /\ cycle < MaxDegraded
    /\ \E snd \in BOOLEAN, lg \in BOOLEAN : ~(snd /\ lg) /\ FailsWith(snd, lg)

Next == ProbeSucceeds \/ ProbeFails

Spec == Init /\ [][Next]_vars

\* The monitor in an environment where sends and log appends may fail.
NextIO == Next \/ ProbeSucceedsDegraded \/ ProbeFailsDegraded

SpecIO == Init /\ [][NextIO]_vars

\* ------------------------------------------------- the loop's use of time
\* The same loop, observed at its blocking calls and in its sleep loop.  What
\* the body does to the counters is the subject of Spec; here the iteration
\* is followed through the places where time passes: subprocess.run (line
\* 96), socket.gethostbyname (line 37, reached through check_dns at line 180
\* when the body gets that far) and time.sleep(1) (line 194).  Neither call
\* is given a timeout, so each returns when the callee does, or never.  The
\* statements between the return of fping and check_dns() may raise an
\* exception nothing catches (lines 32, 159, 173): the process ends.

\* every variable of the monitor but pc
monitorData == <<cycle, internet_up, loss_percentage_count, dns_up, dns_fail_count,
                 ping_fail_count, high_latency_count, notified, ping_time, emitted,
                 sample, run, fired, dnsRun, now, ping_fail_time, downtime, runStart,
                 period, io, ideal>>

\* the sleep loop leaving one second early
SleepMore_short(e) == e < (INTERVAL - 1) * TicksPerSecond

\* while time.time() - start_time < INTERVAL
SleepMore(e) == e < INTERVAL * TicksPerSecond

InitLoop ==
    /\ InitMonitor
    /\ period = INTERVAL * TicksPerSecond
    /\ LoopIdle
    /\ ViewerIdle
    /\ FormatIdle

\* start_time = time.time(), then subprocess.run is called
StartCycle ==
    /\ pc = "running"
    /\ loc = "start"
    /\ loc' = "fping"
    /\ elapsed' = 0
    /\ lastCycle' = IF work # <<>>
                    THEN <<[gap |-> elapsed, work |-> work[1]]>>
                    ELSE lastCycle
    /\ UNCHANGED <<work, hung, monitorVars, viewerVars, formatVars>>

\* fping exits after d ticks; the body then reaches check_dns() or not
FpingReturns ==
    /\ pc = "running"
    /\ loc = "fping"
    /\ ~hung
    /\ \E d \in CallTicks, consult \in BOOLEAN :
          /\ elapsed' = elapsed + d
          /\ loc' = IF consult THEN "dns" ELSE "sleep"
          /\ work' = IF consult THEN work ELSE <<elapsed + d>>
    /\ UNCHANGED <<lastCycle, hung, monitorVars, viewerVars, formatVars>>

\* fping exits after d ticks and the body raises an exception that nothing
\* catches before it reaches check_dns() or the sleep loop: the process ends
BodyRaises ==
    /\ pc = "running"
    /\ loc = "fping"
    /\ ~hung
    /\ \E d \in CallTicks : elapsed' = elapsed + d
    /\ pc' = "crashed"
    /\ UNCHANGED <<loc, work, lastCycle, hung, monitorData, viewerVars, formatVars>>

\* fping never exits: subprocess.run(...) has no timeout argument
FpingHangs ==
    /\ pc = "running"
    /\ loc = "fping"
    /\ ~hung
    /\ hung' = TRUE
    /\ UNCHANGED <<loc, elapsed, work, lastCycle, monitorVars, viewerVars, formatVars>>

\* socket.gethostbyname returns or raises after d ticks
DnsReturns ==
    /\ pc = "running"
    /\ loc = "dns"
    /\ ~hung
    /\ \E d \in CallTicks :
          /\ elapsed' = elapsed + d
          /\ work' = <<elapsed + d>>
    /\ loc' = "sleep"
    /\ UNCHANGED <<lastCycle, hung, monitorVars, viewerVars, formatVars>>

\* the resolver never answers: no socket timeout is set
DnsHangs ==
    /\ pc = "running"
    /\ loc = "dns"
    /\ ~hung
    /\ hung' = TRUE
    /\ UNCHANGED <<loc, elapsed, work, lastCycle, monitorVars, viewerVars, formatVars>>

\* time.sleep(1)
SleepStep ==
    /\ pc = "running"
    /\ loc = "sleep"
    /\ SleepMore(elapsed)
    /\ elapsed' = elapsed + TicksPerSecond
    /\ UNCHANGED <<loc, work, lastCycle, hung, monitorVars, viewerVars, formatVars>>

\* the while condition is false: back to the top of `while True`
SleepDone ==
    /\ pc = "running"
    /\ loc = "sleep"
    /\ ~SleepMore(elapsed)
    /\ loc' = "start"
    /\ UNCHANGED <<elapsed, work, lastCycle, hung, monitorVars, viewerVars, formatVars>>

NextLoop ==
    \/ StartCycle
    \/ FpingReturns
    \/ BodyRaises
    \/ FpingHangs
    \/ DnsReturns
    \/ DnsHangs
    \/ SleepStep
    \/ SleepDone

SpecLoop == InitLoop /\ [][NextLoop]_vars

\* The interpreter keeps executing the loop: every step that can be taken is
\* taken eventually.  Nothing obliges a callee to return, and a body that can
\* raise may do so instead of going on.
FairSpecLoop ==
    /\ SpecLoop
    /\ WF_vars(StartCycle)
    /\ WF_vars(FpingReturns)
    /\ WF_vars(DnsReturns)
    /\ WF_vars(SleepStep)
    /\ WF_vars(SleepDone)

\* -------------------------------------------------- the viewer's status
\* str.lower() on the stored states
Lower(state) == IF state = "UP" THEN "up" ELSE state

\* _format_status(state)["state"]
FormatStatus(state) ==
    LET st == Lower(state)
    IN  IF st \in {"up", "down", "warning"} THEN st ELSE "unknown"

\* datetime.strptime(ts_str, "%Y-%m-%dT%H:%M:%SZ"): seconds since midnight of
\* the day in the text, or nothing when ValueError is raised
Strptime(ts) ==
    IF Len(ts) = 3 /\ ts[1] \in 0..23 /\ ts[2] \in 0..59 /\ ts[3] \in 0..59
    THEN <<ts[1] * 3600 + ts[2] * 60 + ts[3]>>
    ELSE <<>>

\* the upper limit excluded
WithinAge_strict(age, maxage) == age >= 0 /\ age < maxage * TicksPerSecond

\* return age >= 0 and age <= STATUS_MAX_AGE   (age in ticks)
WithinAge(age, maxage) == age >= 0 /\ age <= maxage * TicksPerSecond

\* _status_is_fresh(ts_str)
StatusIsFresh(ts, clk, maxage) ==
    IF maxage <= 0
    THEN TRUE
    ELSE IF ts = <<>>
    THEN FALSE
    ELSE IF Strptime(ts) = <<>>
    THEN FALSE
    ELSE WithinAge(clk - Strptime(ts)[1] * TicksPerSecond, maxage)

Unknown == [internet |-> "unknown", dns |-> "unknown"]

\* internet.get("state", "unknown") when the member is an object
MemberState(member) == IF member = <<>> THEN "unknown" ELSE member[1]

\* load_status(): the "state" of the two dicts it returns
LoadStatus(file, clk, maxage) ==
    IF file.kind = "missing"
    THEN Unknown
    ELSE IF file.kind = "invalid"
    THEN Unknown
    ELSE IF file.kind # "dict"
    THEN Unknown
    ELSE IF ~StatusIsFresh(file.timestamp, clk, maxage)
    THEN Unknown
    ELSE [internet |-> FormatStatus(MemberState(file.internet)),
          dns |-> FormatStatus(MemberState(file.dns))]

\* a status file, a configuration and a clock reading
InitViewer ==
    /\ InitMonitor
    /\ period = INTERVAL * TicksPerSecond
    /\ LoopIdle
    /\ FormatIdle
    /\ status_file \in StatusFiles
    /\ STATUS_MAX_AGE \in MaxAges
    /\ clock \in Clocks
    /\ shown = <<>>

\* the index page calls load_status()
LoadStatusCall ==
    /\ shown = <<>>
    /\ shown' = <<LoadStatus(status_file, clock, STATUS_MAX_AGE)>>
    /\ UNCHANGED <<status_file, STATUS_MAX_AGE, clock, monitorVars, loopVars, formatVars>>

NextViewer == LoadStatusCall

SpecViewer == InitViewer /\ [][NextViewer]_vars

\* ------------------------------------------------------------ format_time
\* timedelta(seconds=seconds).seconds
DeltaSeconds(sec) == sec % SecondsPerDay

\* the unit name always in the plural
Unit_plural(n, name) == name \o "s"

\* 'hour' if hours == 1 else 'hours'
Unit(n, name) == IF n = 1 THEN name ELSE name \o "s"

\* f"{hours} {'hour' if hours == 1 else 'hours'}"
Part(n, name) == ToString(n) \o " " \o Unit(n, name)

\* the list time_parts when formatted_time is built
TimeParts(sec) ==
    LET hours == DeltaSeconds(sec) \div 3600
        remainder == DeltaSeconds(sec) % 3600
        minutes == remainder \div 60
        secs == remainder % 60
        h == IF hours > 0 THEN <<Part(hours, "hour")>> ELSE <<>>
        hm == IF minutes > 0 THEN Append(h, Part(minutes, "minute")) ELSE h
    IN  IF secs > 0 \/ hm = <<>> THEN Append(hm, Part(secs, "second")) ELSE hm

\* ", ".join(time_parts)
RECURSIVE Join(_)
Join(parts) ==
    IF parts = <<>>
    THEN ""
    ELSE IF Len(parts) = 1
    THEN parts[1]
    ELSE parts[1] \o ", " \o Join(Tail(parts))

\* format_time(seconds)
FormatTime(sec) == Join(TimeParts(sec))

\* a duration to format
InitFormat ==
    /\ InitMonitor
    /\ period = INTERVAL * TicksPerSecond
    /\ LoopIdle
    /\ ViewerIdle
    /\ seconds \in FormatInputs
    /\ time_parts = <<>>
    /\ formatted_time = <<>>

FormatTimeCall ==
    /\ formatted_time = <<>>
    /\ time_parts' = TimeParts(seconds)
    /\ formatted_time' = <<FormatTime(seconds)>>
    /\ UNCHANGED <<seconds, monitorVars, loopVars, viewerVars>>

NextFormat == FormatTimeCall

SpecFormat == InitFormat /\ [][NextFormat]_vars

TypeOK ==
    /\ pc \in {"running", "crashed"}
    /\ cycle \in 0..MaxCycles
    /\ internet_up \in BOOLEAN /\ dns_up \in BOOLEAN /\ notified \in BOOLEAN
    /\ loss_percentage_count \in Nat /\ dns_fail_count \in Nat
    /\ ping_fail_count \in Nat /\ high_latency_count \in Nat
    /\ Len(ping_time) <= 1
    /\ now \in Nat /\ ping_fail_time \in Nat /\ period \in Periods
    /\ Len(downtime) <= 1 /\ Len(runStart) <= 1
    /\ io \in [send_ok : BOOLEAN, log_ok : BOOLEAN]
    /\ loc \in {"start", "fping", "dns", "sleep"}
    /\ elapsed \in Nat /\ hung \in BOOLEAN
    /\ Len(work) <= 1 /\ Len(lastCycle) <= 1
    /\ status_file \in StatusFiles
    /\ STATUS_MAX_AGE \in MaxAges
    /\ clock \in Nat
    /\ Len(shown) <= 1
    /\ seconds \in Nat /\ Len(time_parts) <= 3 /\ Len(formatted_time) <= 1

\* ------------------------------------------------------------------- claims
AnyCounterAtTrigger ==
    \/ ping_fail_count >= TRIGGER
    \/ high_latency_count >= TRIGGER
    \/ loss_percentage_count >= TRIGGER

\* C1: the 'Internet is DOWN' alert is issued in exactly the cycle whose
\* failed ping is the TRIGGER-th consecutive failed ping, and in no other.
C1_DownAlertAtTrigger ==
    Count(emitted, "ReachTriggered") =
        IF sample.exit = "fail" /\ run["reach"] = TRIGGER THEN 1 ELSE 0

\* C2: a successful ping issues exactly one 'back from outage' notification
\* when it ends a run of TRIGGER or more failed pings, and no reachability
\* event otherwise (in particular on every further successful ping).
C2_Step ==
    sample'.exit = "ok" =>
        /\ Count(emitted', "ReachRecovered") =
               IF run["reach"] >= TRIGGER THEN 1 ELSE 0
        /\ Count(emitted', "ReachTriggered") = 0

C2_RecoveredOnce == [][C2_Step]_vars

\* a successful ping has just ended an outage and announced the recovery
C2_Witness ==
    /\ sample.exit = "ok"
    /\ run["reach"] = 0
    /\ ping_fail_count = 0
    /\ Count(emitted, "ReachRecovered") = 1

\* C3: at the end of a cycle notified is true exactly when some
\* consecutive-bad counter has reached TRIGGER.
C3_NotifiedIffAtTrigger ==
    pc = "running" => (notified <=> AnyCounterAtTrigger)

\* C4: an uninterrupted run of bad samples of one signal issues at most one
\* Triggered event for that signal.
C4_OneTriggerPerRun ==
    \A sig \in Signals : run[sig] >= 1 => fired[sig] <= 1

\* C5: the loop never stops on an uncaught error.
C5_LoopNeverStops == pc # "crashed"

Counter(sig) ==
    CASE sig = "reach" -> ping_fail_count
      [] sig = "lat"   -> high_latency_count
      [] sig = "loss"  -> loss_percentage_count

\* C6: when a good sample ends a run of fewer than TRIGGER bad samples of a
\* signal, the run has issued no Triggered event, the good sample issues
\* neither Triggered nor Recovered, and the signal's counter is 0 afterwards.
C6_Step ==
    \A sig \in Signals :
        (Classify(sig, sample') = "good" /\ run[sig] >= 1 /\ run[sig] < TRIGGER) =>
            /\ fired[sig] = 0
            /\ Count(emitted', Triggered(sig)) = 0
            /\ Count(emitted', Recovered(sig)) = 0
            /\ Counter(sig)' = 0

C6_ShortRunSilent == [][C6_Step]_vars

\* C7: a cycle whose latency could not be parsed leaves high_latency_count
\* unchanged and issues no latency event.
C7_Step ==
    (sample'.exit = "ok" /\ sample'.lat = <<>>) =>
        /\ high_latency_count' = high_latency_count
        /\ Count(emitted', "LatTriggered") = 0
        /\ Count(emitted', "LatRecovered") = 0

C7_UnknownLatencySkipped == [][C7_Step]_vars

\* C8: the 3rd consecutive failed DNS resolution issues 'DNS resolution
\* failure', and the first successful resolution after 3 or more failures
\* issues 'DNS has recovered from failure'.
C8_Step ==
    /\ (sample'.dns = <<FALSE>> /\ dnsRun' = DnsTrigger) =>
           Count(emitted', "DnsTriggered") = 1
    /\ (sample'.dns = <<TRUE>> /\ dnsRun >= DnsTrigger) =>
           Count(emitted', "DnsRecovered") = 1

C8_DnsAlertAndRecovery == [][C8_Step]_vars

\* C9: a cycle whose probe output cannot be parsed does not reset
\* ping_fail_count, does not set internet_up, and issues no reachability
\* Recovered notification.
C9_Step ==
    (sample'.exit = "ok" /\ sample'.lat = <<>> /\ sample'.loss = <<>>) =>
        /\ ping_fail_count' = ping_fail_count
        /\ (internet_up' => internet_up)
        /\ Count(emitted', "ReachRecovered") = 0

C9_UnparsedNotUp == [][C9_Step]_vars

\* C10: a cycle whose ping fails leaves high_latency_count unchanged and
\* issues no latency event.
C10_Step ==
    sample'.exit = "fail" =>
        /\ high_latency_count' = high_latency_count
        /\ Count(emitted', "LatTriggered") = 0
        /\ Count(emitted', "LatRecovered") = 0

C10_NoLatencyWhileDown == [][C10_Step]_vars

\* C18: a latency sample <= 1000 ms that ends a run of TRIGGER or more
\* high-latency samples issues exactly one 'Latency Recovered' notification,
\* resets high_latency_count to 0 and leaves the loop running.
C18_Step ==
    (run["lat"] >= TRIGGER /\ Classify("lat", sample') = "good") =>
        /\ Count(emitted', "LatRecovered") = 1
        /\ high_latency_count' = 0
        /\ pc' = "running"

C18_LatencyRecovers == [][C18_Step]_vars

\* C19: a 0% loss sample that ends a run of TRIGGER or more lossy samples,
\* whatever its length, issues exactly one packet-loss Recovered notification
\* and resets loss_percentage_count to 0.
C19_Step ==
    (run["loss"] >= TRIGGER /\ Classify("loss", sample') = "good") =>
        /\ Count(emitted', "LossRecovered") = 1
        /\ loss_percentage_count' = 0

C19_LossRecoversAnyLength == [][C19_Step]_vars

\* C20: a reachability Recovered notification is issued only for a run of
\* failed pings during which the reachability Triggered alert was issued.
C20_Step ==
    Count(emitted', "ReachRecovered") > 0 => fired["reach"] >= 1

C20_RecoveredHasTriggered == [][C20_Step]_vars

\* C11: the downtime carried by a reachability Recovered notification is the
\* whole number of seconds between the first failed ping of the run that
\* just ended and the recovering successful ping.
C11_DowntimeSinceFirstFailure ==
    Count(emitted, "ReachRecovered") > 0 =>
        /\ runStart # <<>>
        /\ downtime # <<>>
        /\ downtime[1] * TicksPerSecond <= now - runStart[1]
        /\ now - runStart[1] < (downtime[1] + 1) * TicksPerSecond

\* an outage of more than TRIGGER failed pings has just been recovered from
C11_Witness ==
    /\ Count(emitted, "ReachRecovered") = 1
    /\ downtime # <<>>
    /\ downtime[1] > TRIGGER * INTERVAL

\* C12: a cycle in which the notification send or the log append fails
\* leaves the counters and flags as the same cycle does when both succeed,
\* and the loop goes on.
C12_IoFailureHarmless ==
    (~io.send_ok \/ ~io.log_ok) => Prog(Cur) = ideal

Max(a, b) == IF a >= b THEN a ELSE b

\* C13: every started cycle eventually finishes and the loop comes back to
\* its top for the next cycle, even when fping or the DNS resolution never
\* returns on its own: no cycle stays inside a blocking call forever.  (A
\* cycle that an uncaught exception ends is the subject of C5 and is not
\* counted against this claim.)
C13_HungProbeCutOff ==
    (pc = "running" /\ (loc = "fping" \/ loc = "dns")) ~>
        (loc = "start" \/ pc = "crashed")

\* C14: two consecutive cycle starts are at least INTERVAL seconds apart
\* whatever the cycle's work took, and at most one sleep increment (1 second)
\* more than max(INTERVAL, work duration) apart.
C14_Cadence ==
    lastCycle # <<>> =>
        /\ lastCycle[1].gap >= INTERVAL * TicksPerSecond
        /\ lastCycle[1].gap <=
               Max(INTERVAL * TicksPerSecond, lastCycle[1].work) + TicksPerSecond

\* a cycle whose work took a fraction of a second has slept past INTERVAL
C14_Witness ==
    /\ lastCycle # <<>>
    /\ lastCycle[1].work > 0
    /\ lastCycle[1].work < INTERVAL * TicksPerSecond
    /\ lastCycle[1].gap > INTERVAL * TicksPerSecond

\* the states the status file format names
ValidStates == {"up", "down", "warning", "unknown"}

\* a JSON object whose two members carry states of the format
WellFormed(file) ==
    /\ file.kind = "dict"
    /\ file.internet # <<>> /\ file.internet[1] \in ValidStates
    /\ file.dns # <<>> /\ file.dns[1] \in ValidStates

Stored(file) == [internet |-> file.internet[1], dns |-> file.dns[1]]

\* age of the snapshot in ticks, when its timestamp parses
Age(file, clk) == clk - Strptime(file.timestamp)[1] * TicksPerSecond

\* C16: load_status on a well-formed status file.  With the age check
\* enabled (STATUS_MAX_AGE > 0): a timestamp that cannot be parsed, a negative
\* age or an age above STATUS_MAX_AGE gives unknown for both, whatever is
\* stored, and an age exactly STATUS_MAX_AGE gives the stored states.  With
\* STATUS_MAX_AGE <= 0 the check is disabled and the stored states are given.
C16_LoadStatusFreshness ==
    (shown # <<>> /\ WellFormed(status_file)) =>
        /\ (/\ STATUS_MAX_AGE > 0
            /\ \/ Strptime(status_file.timestamp) = <<>>
               \/ Age(status_file, clock) < 0
               \/ Age(status_file, clock) > STATUS_MAX_AGE * TicksPerSecond)
              => shown[1] = Unknown
        /\ STATUS_MAX_AGE <= 0 => shown[1] = Stored(status_file)
        /\ (/\ STATUS_MAX_AGE > 0
            /\ Strptime(status_file.timestamp) # <<>>
            /\ Age(status_file, clock) = STATUS_MAX_AGE * TicksPerSecond)
              => shown[1] = Stored(status_file)

\* a stored 'up' whose age is exactly STATUS_MAX_AGE has been reported as up
C16_Witness ==
    /\ shown # <<>>
    /\ WellFormed(status_file)
    /\ STATUS_MAX_AGE = DefaultMaxAge
    /\ Strptime(status_file.timestamp) # <<>>
    /\ Age(status_file, clock) = STATUS_MAX_AGE * TicksPerSecond
    /\ status_file.internet = <<"up">>
    /\ shown[1].internet = "up"

\* C15: at the end of every monitor cycle the status snapshot holds that
\* cycle's timestamp and the current classification of reachability and DNS,
\* so that load_status reports the monitor's current internet and dns state.
C15_SnapshotPublished ==
    (cycle > 0 /\ pc = "running") =>
        /\ status_file.kind = "dict"
        /\ Strptime(status_file.timestamp) = <<now \div TicksPerSecond>>
        /\ LoadStatus(status_file, now, STATUS_MAX_AGE) =
               [internet |-> IF internet_up THEN "up" ELSE "down",
                dns |-> IF dns_up THEN "up" ELSE "down"]

\* a part as the claim words it: the number, then the unit name in the
\* singular exactly when the number is 1
Worded(n, one, many) == ToString(n) \o " " \o (IF n = 1 THEN one ELSE many)

\* hours, minutes, seconds in that order, zero hours and zero minutes left
\* out; the seconds part is there always (always_seconds), or when it is not
\* zero or nothing else is there
WordedParts(sec, always_seconds) ==
    LET h == sec \div 3600
        m == (sec % 3600) \div 60
        r == sec % 60
    IN  (IF h > 0 THEN <<Worded(h, "hour", "hours")>> ELSE <<>>)
        \o (IF m > 0 THEN <<Worded(m, "minute", "minutes")>> ELSE <<>>)
        \o (IF always_seconds \/ r > 0 \/ (h = 0 /\ m = 0)
            THEN <<Worded(r, "second", "seconds")>>
            ELSE <<>>)

\* the two renderings the claim spells out
FormatExamples ==
    /\ seconds = 3661 => formatted_time = <<"1 hour, 1 minute, 1 second">>
    /\ seconds = 0 => formatted_time = <<"0 seconds">>

\* C17 as stated: for 0 <= s < 86400 format_time(s) is a non-empty text that
\* lists hours, minutes, seconds in that order, leaves out zero-valued higher
\* units, always shows the seconds part and uses the singular exactly for 1;
\* 3661 gives '1 hour, 1 minute, 1 second' and 0 gives '0 seconds'.
C17_SecondsAlwaysShown ==
    (formatted_time # <<>> /\ seconds < SecondsPerDay) =>
        /\ formatted_time[1] # ""
        /\ time_parts = WordedParts(seconds, TRUE)
        /\ formatted_time[1] = Join(time_parts)
        /\ FormatExamples

\* C17 amended: as stated, except that the seconds part is shown when it is
\* not zero or when no other part is shown (3600 gives '1 hour').
C17_SecondsShownWhenNeeded ==
    (formatted_time # <<>> /\ seconds < SecondsPerDay) =>
        /\ formatted_time[1] # ""
        /\ time_parts = WordedParts(seconds, FALSE)
        /\ formatted_time[1] = Join(time_parts)
        /\ FormatExamples

\* 3661 seconds have been rendered with three singular parts
C17_Witness ==
    /\ seconds = 3661
    /\ formatted_time = <<"1 hour, 1 minute, 1 second">>
    /\ Len(time_parts) = 3

\* the durations whose wording (hours, minutes, seconds of the duration
\* itself, days not split off) is the given list of parts
Denoted(parts) == {v \in FormatInputs : WordedParts(v, FALSE) = parts}

\* C21: the duration rendered by format_time denotes its input: for every
\* integer s >= 0, also s >= 86400, hours*3600 + minutes*60 + seconds of the
\* rendered parts equals s.
C21_RenderedDenotesInput ==
    formatted_time # <<>> =>
        /\ formatted_time[1] = Join(time_parts)
        /\ Denoted(time_parts) = {seconds}

====
